---- MODULE Spec2Model ----
(***************************************************************************)
(* Model of bep/textandbinarywriter: the pull-based Reader that filters    *)
(* binary blobs out of a text stream (Reader.Read over a bufio.Reader),    *)
(* the blob header codec, and the push-based Writer that routes text and   *)
(* header+blob bytes to two sinks.                                         *)
(*                                                                         *)
(* Bytes are integers 0..255.  Errors are strings: "nil", "EOF"            *)
(* (io.EOF), "ErrUnexpectedEOF" (io.ErrUnexpectedEOF) and "handler error". *)
(***************************************************************************)
EXTENDS Integers, Sequences, FiniteSets, TLC

VARIABLES
    input,      \* the segments (text / frame) the source stream was built from
    handler,    \* the behaviour of the handleBlob callback
    b,          \* Reader.r: the bufio.Reader and the source below it
    out,        \* concatenation of the bytes returned by Reader.Read so far
    handled,    \* one entry per handleBlob invocation, in order
    lastN,      \* n returned by the last Reader.Read
    lastErr,    \* err returned by the last Reader.Read
    herr,       \* some handleBlob invocation has returned an error
    w,          \* the Writer's state: mode, header, headerN, size, count
    textw,      \* bytes received by the text sink
    binaryw,    \* bytes received by the binary sink
    pending,    \* bytes the caller has still to pass to Writer.Write
    wpos,       \* number of bytes passed to Writer.Write so far
    split,      \* some Write call boundary fell strictly inside a marker
    wn,         \* n returned by the last Writer.Write
    werr,       \* err returned by the last Writer.Write
    wfailed,    \* some write to a sink has failed
    cret,       \* what Writer.Close returned, "none" before it is called
    cin,        \* the id and size passed to WriteBlobHeader
    cwire,      \* the bytes put on the wire for ReadBlobHeader
    cr,         \* the io.Reader over the wire that ReadBlobHeader reads
    cres,       \* what ReadBlobHeader returned
    cstage,     \* "new", "written" (header on the wire) or "read"
    feeder,     \* the adapter's feeder task: position, writes to come, error
    consumer,   \* the adapter's blob-consumer task: position, header, body left
    tpipe,      \* the text pipe: the write in flight, closes of its two ends
    bpipe,      \* the binary pipe
    caller,     \* the user of the public reader: position, text read, result
    aerrs       \* the errors the adapter's tasks ended with, in order of ending

vars == <<input, handler, b, out, handled, lastN, lastErr, herr,
          w, textw, binaryw, pending, wpos, split, wn, werr, wfailed, cret,
          cin, cwire, cr, cres, cstage,
          feeder, consumer, tpipe, bpipe, caller, aerrs>>

readerVars == <<handler, b, out, handled, lastN, lastErr, herr>>
writerVars == <<w, textw, binaryw, pending, wpos, split, wn, werr, wfailed, cret>>
codecVars == <<cin, cwire, cr, cres, cstage>>
adapterVars == <<feeder, consumer, tpipe, bpipe, caller, aerrs>>

\* the parts of the state a specification does not use stay as they are
ReaderIdle ==
    /\ handler = <<>> /\ b = <<>> /\ out = <<>> /\ handled = <<>>
    /\ lastN = 0 /\ lastErr = "nil" /\ herr = FALSE

WriterIdle ==
    /\ w = <<>> /\ textw = <<>> /\ binaryw = <<>> /\ pending = <<>>
    /\ wpos = 0 /\ split = FALSE /\ wn = 0 /\ werr = "nil"
    /\ wfailed = FALSE /\ cret = "none"

CodecIdle ==
    cin = <<>> /\ cwire = <<>> /\ cr = <<>> /\ cres = <<>> /\ cstage = "new"

AdapterIdle ==
    /\ feeder = <<>> /\ consumer = <<>> /\ tpipe = <<>> /\ bpipe = <<>>
    /\ caller = <<>> /\ aerrs = <<>>

----------------------------------------------------------------------------
(* Bounds of the model *)

\* longest stream, in segments (text segments and frames)
MaxSegs == 3
\* largest destination buffer passed to Reader.Read
MaxBuf == 3
\* largest byte range passed to Writer.Write by a caller that writes in small
\* pieces
MaxWrite == 3

----------------------------------------------------------------------------
(* Program constants *)

BlobMarker == <<84, 65, 75, 51, 53, 69, 77, 49>>    \* 'T','A','K','3','5','E','M','1'

byteHeaderByteLength == 8 + 4 + 4

modeText == 0
modeHeader == 1
modeBinary == 2

\* io.ReadAll reads with a buffer of 512 bytes; io.Copy to io.Discard with 8192
ReadAllChunk == 512
DiscardChunk == 8192
\* io.Copy reads with a buffer of 32768 bytes
CopyBufSize == 32768

----------------------------------------------------------------------------
(* Helpers on sequences *)

Min(x, y) == IF x <= y THEN x ELSE y

Take(s, k) == SubSeq(s, 1, Min(k, Len(s)))

Drop(s, k) == SubSeq(s, Min(k, Len(s)) + 1, Len(s))

IsPrefix(s, t) == Len(s) <= Len(t) /\ SubSeq(t, 1, Len(s)) = s

\* a search that is content with the first four bytes of sep
IndexPrefix(s, sep) ==
    LET hits == {i \in 0..(Len(s) - 4) : SubSeq(s, i + 1, i + 4) = SubSeq(sep, 1, 4)}
    IN IF hits = {} THEN -1 ELSE CHOOSE i \in hits : \A j \in hits : i <= j

\* bytes.Index: the 0-based offset of the first occurrence of sep in s, or -1
Index(s, sep) ==
    LET hits == {i \in 0..(Len(s) - Len(sep)) : SubSeq(s, i + 1, i + Len(sep)) = sep}
    IN IF hits = {} THEN -1 ELSE CHOOSE i \in hits : \A j \in hits : i <= j

\* binary.LittleEndian encoding of a uint32
LE32(v) ==
    <<v % 256, (v \div 256) % 256, (v \div 65536) % 256, (v \div 16777216) % 256>>

\* a decoding with the byte order reversed
DecodeBE32(s) == s[4] + 256 * s[3] + 65536 * s[2] + 16777216 * s[1]

\* binary.LittleEndian decoding of a uint32
DecodeLE32(s) == s[1] + 256 * s[2] + 65536 * s[3] + 16777216 * s[4]

----------------------------------------------------------------------------
(* The header codec: the writing side *)

\* WriteBlobHeader into a sink that accepts every byte: marker, id, size
WriteBlobHeader(id, size) == BlobMarker \o LE32(id) \o LE32(size)

----------------------------------------------------------------------------
(* Input streams: text segments interleaved with well-formed frames *)

TextSeg(t) == [text |-> TRUE, id |-> 0, bytes |-> t]

FrameSeg(id, body) == [text |-> FALSE, id |-> id, bytes |-> body]

\* text segments: plain text, and two strict prefixes of the marker
Texts == { <<97>>, SubSeq(BlobMarker, 1, 4), SubSeq(BlobMarker, 1, 7) }

\* frames: a zero-length blob, and a blob whose body ends in the marker's
\* first byte
Frames == { FrameSeg(7, <<>>), FrameSeg(258, <<222, 173, 84>>) }

Segs == { TextSeg(t) : t \in Texts } \cup Frames

\* streams of at most MaxSegs segments; a text segment is maximal
Streams ==
    { s \in UNION { [1..n -> Segs] : n \in 0..MaxSegs } :
        \A i \in 1..(Len(s) - 1) : ~(s[i].text /\ s[i + 1].text) }

\* writeBlob: header with the body's length, then the body
SegBytes(g) ==
    IF g.text THEN g.bytes ELSE WriteBlobHeader(g.id, Len(g.bytes)) \o g.bytes

RECURSIVE Flatten(_)
Flatten(s) == IF s = <<>> THEN <<>> ELSE SegBytes(Head(s)) \o Flatten(Tail(s))

RECURSIVE ExpectedText(_)
ExpectedText(s) ==
    IF s = <<>> THEN <<>>
    ELSE (IF Head(s).text THEN Head(s).bytes ELSE <<>>) \o ExpectedText(Tail(s))

RECURSIVE ExpectedBinary(_)
ExpectedBinary(s) ==
    IF s = <<>> THEN <<>>
    ELSE (IF Head(s).text THEN <<>> ELSE SegBytes(Head(s))) \o ExpectedBinary(Tail(s))

\* the frames of a stream, in stream order
ExpectedFrames(s) == SelectSeq(s, LAMBDA g : ~g.text)

----------------------------------------------------------------------------
(* bufio.Reader over the source.  A reader is the record                   *)
(*   buf   the bytes buffered and not yet consumed (b.buf[b.r:b.w])        *)
(*   src   the bytes the underlying io.Reader has still to deliver         *)
(*   chunk the most bytes the underlying io.Reader delivers per Read       *)
(*   err   the pending read error (b.err)                                  *)
(* The buffer's capacity (4096) exceeds every stream of the model.         *)

NewReader(s, c) == [buf |-> <<>>, src |-> s, chunk |-> c, err |-> "nil"]

\* bytes.NewReader(s): a reader that delivers whatever is asked for
BytesReader(s) == [buf |-> s, src |-> <<>>, chunk |-> 1, err |-> "nil"]

\* b.fill: one Read of the underlying reader into the free part of the buffer
Fill(r) ==
    IF r.src = <<>> THEN [r EXCEPT !.err = "EOF"]
    ELSE [r EXCEPT !.buf = @ \o Take(r.src, r.chunk), !.src = Drop(@, r.chunk)]

\* the loop of Peek and Discard: fill until n bytes are buffered or an error
RECURSIVE FillUntil(_, _)
FillUntil(r, n) ==
    IF Len(r.buf) < n /\ r.err = "nil" THEN FillUntil(Fill(r), n) ELSE r

\* b.readErr: return the pending error and clear it
ClearErr(r) == [r EXCEPT !.err = "nil"]

\* the end of Peek, f the reader after its fill loop
PeekFilled(f, n) ==
    IF Len(f.buf) < n
    THEN [b |-> ClearErr(f), data |-> f.buf, err |-> f.err]
    ELSE [b |-> f, data |-> Take(f.buf, n), err |-> "nil"]

\* b.Peek(n): the next n bytes without consuming them; fewer with an error
Peek(r, n) == PeekFilled(FillUntil(r, n), n)

\* the end of Discard, f the reader after its fill loop
DiscardFilled(f, n) ==
    IF Len(f.buf) < n
    THEN [b |-> [ClearErr(f) EXCEPT !.buf = <<>>], n |-> Len(f.buf), err |-> f.err]
    ELSE [b |-> [f EXCEPT !.buf = Drop(@, n)], n |-> n, err |-> "nil"]

\* a Discard that skips one byte too few
DiscardShort(r, n) == DiscardFilled(FillUntil(r, n), n - 1)

\* b.Discard(n): skip the next n bytes
Discard(r, n) == DiscardFilled(FillUntil(r, n), n)

\* the end of b.Read, f the reader after the one Read of the underlying
\* reader that an empty buffer causes
BReadFilled(f, k) ==
    IF f.buf = <<>>
    THEN [b |-> ClearErr(f), data |-> <<>>, err |-> f.err]
    ELSE [b |-> [f EXCEPT !.buf = Drop(@, k)], data |-> Take(f.buf, k), err |-> "nil"]

\* b.Read(p) with len(p) = k: buffered bytes if any, else the result of one
\* Read of the underlying reader
BRead(r, k) ==
    IF k = 0
    THEN IF r.buf # <<>> THEN [b |-> r, data |-> <<>>, err |-> "nil"]
         ELSE [b |-> ClearErr(r), data |-> <<>>, err |-> r.err]
    ELSE IF r.buf = <<>> /\ r.err # "nil"
    THEN [b |-> ClearErr(r), data |-> <<>>, err |-> r.err]
    ELSE BReadFilled(IF r.buf = <<>> THEN Fill(r) ELSE r, k)

\* the end of ReadByte, f the reader after its fill loop
ReadByteFilled(f) ==
    IF f.buf = <<>>
    THEN [b |-> ClearErr(f), byte |-> 0, err |-> f.err]
    ELSE [b |-> [f EXCEPT !.buf = Tail(@)], byte |-> Head(f.buf), err |-> "nil"]

\* b.ReadByte
ReadByte(r) == ReadByteFilled(FillUntil(r, 1))

\* io.ReadFull(r, buf) with len(buf) = k: read until k bytes or an error;
\* EOF after some but not all bytes is ErrUnexpectedEOF.  ReadFullStep is
\* one turn of the loop, rd the result of its Read, got the bytes so far.
RECURSIVE ReadFullLoop(_, _, _)
RECURSIVE ReadFullStep(_, _, _)
ReadFullStep(k, got, rd) ==
    IF rd.err = "nil" THEN ReadFullLoop(rd.b, k, got)
    ELSE IF Len(got) >= k THEN [b |-> rd.b, data |-> got, err |-> "nil"]
    ELSE IF got # <<>> /\ rd.err = "EOF"
         THEN [b |-> rd.b, data |-> got, err |-> "ErrUnexpectedEOF"]
    ELSE [b |-> rd.b, data |-> got, err |-> rd.err]

ReadFullRead(k, acc, rd) == ReadFullStep(k, acc \o rd.data, rd)

ReadFullLoop(r, k, acc) ==
    IF Len(acc) >= k THEN [b |-> r, data |-> acc, err |-> "nil"]
    ELSE ReadFullRead(k, acc, BRead(r, k - Len(acc)))

ReadFull(r, k) == ReadFullLoop(r, k, <<>>)

----------------------------------------------------------------------------
(* The header codec: the reading side *)

\* the end of binary.Read, rd the result of its io.ReadFull
BinaryDecodeUint32(rd) ==
    IF rd.err # "nil" THEN [b |-> rd.b, v |-> 0, err |-> rd.err]
    ELSE [b |-> rd.b, v |-> DecodeLE32(rd.data), err |-> "nil"]

\* binary.Read(r, binary.LittleEndian, &v) for a uint32
BinaryReadUint32(r) == BinaryDecodeUint32(ReadFull(r, 4))

\* a header read that returns the two fields in the other order
HeaderAfterSizeSwapped(id, s) ==
    IF s.err # "nil" THEN [b |-> s.b, id |-> 0, size |-> 0, err |-> s.err]
    ELSE [b |-> s.b, id |-> s.v, size |-> id, err |-> "nil"]

\* ReadBlobHeaderExcludingMarker after the read of size, s its result
HeaderAfterSize(id, s) ==
    IF s.err # "nil" THEN [b |-> s.b, id |-> 0, size |-> 0, err |-> s.err]
    ELSE [b |-> s.b, id |-> id, size |-> s.v, err |-> "nil"]

\* ReadBlobHeaderExcludingMarker after the read of id, i its result
HeaderAfterId(i) ==
    IF i.err # "nil" THEN [b |-> i.b, id |-> 0, size |-> 0, err |-> i.err]
    ELSE HeaderAfterSize(i.v, BinaryReadUint32(i.b))

ReadBlobHeaderExcludingMarker(r) == HeaderAfterId(BinaryReadUint32(r))

\* a header read that does not compare the eight bytes with the marker
HeaderAfterMarkerUnchecked(m) ==
    IF m.err # "nil" THEN [b |-> m.b, id |-> 0, size |-> 0, err |-> m.err]
    ELSE ReadBlobHeaderExcludingMarker(m.b)

\* ReadBlobHeader after the read of the marker, m its result
HeaderAfterMarker(m) ==
    IF m.err # "nil" THEN [b |-> m.b, id |-> 0, size |-> 0, err |-> m.err]
    ELSE IF m.data # BlobMarker
         THEN [b |-> m.b, id |-> 0, size |-> 0, err |-> "ErrUnexpectedEOF"]
    ELSE ReadBlobHeaderExcludingMarker(m.b)

ReadBlobHeader(r) == HeaderAfterMarker(ReadFull(r, Len(BlobMarker)))

----------------------------------------------------------------------------
(* The blob body handed to the handler, and the handler *)

\* the end of a limited read, rd the result of the Read below it
LimitReadDone(N, rd) ==
    [b |-> rd.b, N |-> N - Len(rd.data), data |-> rd.data, err |-> rd.err]

\* a limited reader that does not cut the read down to the bytes left
LimitReadUnbounded(r, N, k) ==
    IF N <= 0 THEN [b |-> r, N |-> N, data |-> <<>>, err |-> "EOF"]
    ELSE LimitReadDone(N, BRead(r, k))

\* io.LimitedReader.Read(p) with len(p) = k, over reader r with N bytes left
LimitRead(r, N, k) ==
    IF N <= 0 THEN [b |-> r, N |-> N, data |-> <<>>, err |-> "EOF"]
    ELSE LimitReadDone(N, BRead(r, Min(k, N)))

\* a Read that leaves what the handler did not read in the source
DrainNothing(r, N) == [b |-> r, err |-> "nil"]

\* io.Copy(io.Discard, lr): read and drop until an error; EOF is success.
\* DrainStep is one turn of the loop, rd the result of its read.
RECURSIVE Drain(_, _)
RECURSIVE DrainStep(_)
DrainStep(rd) ==
    IF rd.err = "nil" THEN Drain(rd.b, rd.N)
    ELSE [b |-> rd.b, err |-> IF rd.err = "EOF" THEN "nil" ELSE rd.err]

Drain(r, N) == DrainStep(LimitRead(r, N, DiscardChunk))

\* The handlers of the tests, as records:
\*   kind "all"    io.ReadAll(r): reads of ReadAllChunk bytes until an error
\*   kind "reads"  k reads of sz bytes each (k = 1, sz = 1: "partialRead";
\*                 k = 0: a handler that does not touch the body)
\*   failId        the blob id for which the handler returns an error
\*                 (0: the handler never fails)
Handlers ==
    { [kind |-> "all", k |-> 0, sz |-> ReadAllChunk, failId |-> 0],
      [kind |-> "reads", k |-> 0, sz |-> 1, failId |-> 0],
      [kind |-> "reads", k |-> 1, sz |-> 1, failId |-> 0],
      [kind |-> "reads", k |-> 3, sz |-> 2, failId |-> 0],
      [kind |-> "reads", k |-> 0, sz |-> 1, failId |-> 258],
      [kind |-> "reads", k |-> 1, sz |-> 1, failId |-> 7] }

\* the handler has read enough: errs are the errors of its reads so far
HandlerStops(h, errs) ==
    IF h.kind = "all" THEN errs # <<>> /\ errs[Len(errs)] # "nil"
    ELSE Len(errs) >= h.k

\* the reads a handler performs on the body it is given; HandlerRead is one
\* of them, rd its result
RECURSIVE HandlerReads(_, _, _, _, _)
RECURSIVE HandlerRead(_, _, _, _)
HandlerRead(h, data, errs, rd) ==
    HandlerReads(h, rd.b, rd.N, data \o rd.data, Append(errs, rd.err))

HandlerReads(h, r, N, data, errs) ==
    IF HandlerStops(h, errs) THEN [b |-> r, N |-> N, data |-> data, errs |-> errs]
    ELSE HandlerRead(h, data, errs, LimitRead(r, N, h.sz))

\* what the handler returns, hr the reads it has made
HandlerReturns(h, id, hr) ==
    [b |-> hr.b, N |-> hr.N, data |-> hr.data, errs |-> hr.errs,
     ret |-> IF id = h.failId THEN "handler error" ELSE "nil"]

\* r.handleBlob(id, lr): what the handler read, the errors its reads
\* returned, and the error it returns
HandleBlob(h, id, r, size) ==
    HandlerReturns(h, id, HandlerReads(h, r, size, <<>>, <<>>))

----------------------------------------------------------------------------
(* Reader.Read *)

\* a comparison of the first four bytes only
IsMarkerPrefix(peeked) == Take(peeked, 4) = Take(BlobMarker, 4)

\* bytes.Equal(peeked, BlobMarker[:])
IsMarker(peeked) == peeked = BlobMarker

\* a last branch that keeps the error of its read to itself
ReadRestQuiet(r, room) == [BRead(r, room) EXCEPT !.err = "nil"]

\* the branch of Read taken when Peek fails: the rest is text
ReadRest(r, room) == BRead(r, room)

\* the blob branch after io.Copy(io.Discard, lr), dr its result
AfterDrain(entry, dr) ==
    [b |-> dr.b, err |-> dr.err, hd |-> <<entry>>, herr |-> FALSE]

\* the record of one handler invocation: the header's fields, what the
\* handler read and returned, the bytes the Reader had not yet consumed from
\* r.r when it called the handler (rest), and the value of n at that moment
\* (filled in by the loop of Read)
Invocation(hdr, hb) ==
    [id |-> hdr.id, size |-> hdr.size, data |-> hb.data, errs |-> hb.errs,
     ret |-> hb.ret, rest |-> hdr.b.buf \o hdr.b.src, n |-> 0]

\* the blob branch after r.handleBlob(id, lr), hb its result: return its
\* error, else drain what it left
AfterHandler(hdr, hb) ==
    IF hb.ret # "nil"
    THEN [b |-> hb.b, err |-> hb.ret, hd |-> <<Invocation(hdr, hb)>>, herr |-> TRUE]
    ELSE AfterDrain(Invocation(hdr, hb), Drain(hb.b, hb.N))

\* a blob branch that does not call the handler for an empty blob
AfterHeaderSkipEmpty(h, hdr) ==
    IF hdr.err # "nil" \/ hdr.size = 0
    THEN [b |-> hdr.b, err |-> hdr.err, hd |-> <<>>, herr |-> FALSE]
    ELSE AfterHandler(hdr, HandleBlob(h, hdr.id, hdr.b, hdr.size))

\* the blob branch after ReadBlobHeaderExcludingMarker, hdr its result:
\* return its error, else hand the bounded body to the handler
AfterHeader(h, hdr) ==
    IF hdr.err # "nil"
    THEN [b |-> hdr.b, err |-> hdr.err, hd |-> <<>>, herr |-> FALSE]
    ELSE AfterHandler(hdr, HandleBlob(h, hdr.id, hdr.b, hdr.size))

\* the blob branch after the Discard of the marker, d its result
AfterDiscard(h, d) ==
    IF d.err # "nil" THEN [b |-> d.b, err |-> d.err, hd |-> <<>>, herr |-> FALSE]
    ELSE AfterHeader(h, ReadBlobHeaderExcludingMarker(d.b))

\* the blob branch of Read: discard the marker, read the header, hand the
\* body over, drain it
ReadBlob(h, r) == AfterDiscard(h, Discard(r, Len(BlobMarker)))

\* the loop of Reader.Read(p) with len(p) = lenp; p holds the bytes stored
\* in the destination so far (n = Len(p)), hd the handler invocations.
\* AfterRest, AfterBlob and AfterByte are the ends of the three branches,
\* AfterPeek the choice between them, pk the result of Peek.
RECURSIVE ReadLoop(_, _, _, _, _)
RECURSIVE AfterBlob(_, _, _, _, _)
RECURSIVE AfterByte(_, _, _, _, _)
RECURSIVE AfterPeek(_, _, _, _, _)

AfterRest(p, hd, rd) ==
    [b |-> rd.b, p |-> p \o rd.data, err |-> rd.err, hd |-> hd, herr |-> FALSE]

\* the invocations of one turn of the loop, made while n bytes were stored
\* in the destination
InvokedAt(n, hd) == [i \in 1..Len(hd) |-> [hd[i] EXCEPT !.n = n]]

AfterBlob(h, lenp, p, hd, rb) ==
    IF rb.err # "nil"
    THEN [b |-> rb.b, p |-> p, err |-> rb.err,
          hd |-> hd \o InvokedAt(Len(p), rb.hd), herr |-> rb.herr]
    ELSE ReadLoop(h, rb.b, lenp, p, hd \o InvokedAt(Len(p), rb.hd))

AfterByte(h, lenp, p, hd, by) ==
    IF by.err # "nil"
    THEN [b |-> by.b, p |-> p, err |-> by.err, hd |-> hd, herr |-> FALSE]
    ELSE ReadLoop(h, by.b, lenp, Append(p, by.byte), hd)

\* a loop that, where no marker starts, reads as much text as the
\* destination takes and returns
AfterPeekBulk(h, lenp, p, hd, pk) ==
    IF pk.err # "nil" THEN AfterRest(p, hd, ReadRest(pk.b, lenp - Len(p)))
    ELSE IF IsMarker(pk.data) THEN AfterBlob(h, lenp, p, hd, ReadBlob(h, pk.b))
    ELSE AfterRest(p, hd, BRead(pk.b, lenp - Len(p)))

AfterPeek(h, lenp, p, hd, pk) ==
    IF pk.err # "nil" THEN AfterRest(p, hd, ReadRest(pk.b, lenp - Len(p)))
    ELSE IF IsMarker(pk.data) THEN AfterBlob(h, lenp, p, hd, ReadBlob(h, pk.b))
    ELSE AfterByte(h, lenp, p, hd, ReadByte(pk.b))

ReadLoop(h, r, lenp, p, hd) ==
    IF Len(p) >= lenp
    THEN [b |-> r, p |-> p, err |-> "nil", hd |-> hd, herr |-> FALSE]
    ELSE AfterPeek(h, lenp, p, hd, Peek(r, Len(BlobMarker)))

ReaderRead(h, r, lenp) == ReadLoop(h, r, lenp, <<>>, <<>>)

\* the chunk sizes the source delivers: one byte, three bytes, all at once
SrcChunks == {1, 3, 4096}

\* New(r, handleBlob), for every stream, source chunking and handler
InitReader ==
    /\ input \in Streams
    /\ handler \in Handlers
    /\ \E c \in SrcChunks : b = NewReader(Flatten(input), c)
    /\ out = <<>>
    /\ handled = <<>>
    /\ lastN = 0
    /\ lastErr = "nil"
    /\ herr = FALSE
    /\ WriterIdle
    /\ CodecIdle
    /\ AdapterIdle

\* the state after a call of Read, res what ReaderRead computed
ReadReturns(res) ==
    /\ b' = res.b
    /\ out' = out \o res.p
    /\ handled' = handled \o res.hd
    /\ lastN' = Len(res.p)
    /\ lastErr' = res.err
    /\ herr' = (herr \/ res.herr)
    /\ UNCHANGED <<input, handler>>
    /\ UNCHANGED writerVars
    /\ UNCHANGED codecVars
    /\ UNCHANGED adapterVars

\* one call n, err = r.Read(p) with len(p) = lenp
Read(lenp) == ReadReturns(ReaderRead(handler, b, lenp))

\* the caller reads with a small buffer
ReadSmall == \E lenp \in 1..MaxBuf : Read(lenp)

\* the caller reads as io.Copy does, with a buffer larger than the stream
ReadLarge == Read(CopyBufSize)

NextReader == ReadSmall \/ ReadLarge

SpecReader == InitReader /\ [][NextReader]_vars

\* the last call returned (0, io.EOF): the source and the buffer are empty,
\* and every further call returns the same and changes nothing
Stopped == lastErr = "EOF" /\ lastN = 0

\* A caller that reads until end-of-stream, as io.Copy and io.ReadAll do:
\* weak fairness of the Read calls.  This is WF_vars(NextReader), that is
\* []<>~ENABLED <<NextReader>>_vars \/ []<><<NextReader>>_vars, with the
\* ENABLED written out as ~Stopped: EveryReadProgresses checks that a call
\* changes the state wherever Stopped is false, so that WF_vars(NextReader)
\* implies this condition.
CallerKeepsReading == []<>Stopped \/ []<><<NextReader>>_vars

SpecReaderFair == InitReader /\ [][NextReader]_vars /\ CallerKeepsReading

\* the streams that end in a frame
EndsInFrame == { s \in Streams : s # <<>> /\ ~s[Len(s)].text }

\* the numbers of bytes a source may lack at its end so that it ends after
\* the whole marker of its last frame: from one body byte (or, for an empty
\* body, one byte of size) to all of id, size and body
Cuts(s) == 1..(4 + 4 + Len(s[Len(s)].bytes))

\* New(r, handleBlob) over a source that ends inside its last frame
InitReaderCut ==
    /\ input \in EndsInFrame
    /\ handler \in Handlers
    /\ \E c \in SrcChunks : \E cut \in Cuts(input) :
          b = NewReader(Take(Flatten(input), Len(Flatten(input)) - cut), c)
    /\ out = <<>>
    /\ handled = <<>>
    /\ lastN = 0
    /\ lastErr = "nil"
    /\ herr = FALSE
    /\ WriterIdle
    /\ CodecIdle
    /\ AdapterIdle

SpecReaderCut == InitReaderCut /\ [][NextReader]_vars

----------------------------------------------------------------------------
(* The header codec on its own: WriteBlobHeader into a buffer, then        *)
(* ReadBlobHeader from it, as TestBlobHeaderWriteAndRead does              *)

\* ids and sizes: each of the four bytes zero and non-zero, up to the
\* largest number the model checker represents (2^31 - 1)
HeaderValues ==
    {0, 1, 42, 100, 255, 256, 65536, 16777216, 305419896, 2147483647}

\* bytes that may follow a header on the wire
BodyBytes == <<222, 173>>

\* the values a damaged marker byte takes: zero, or the next byte value
Damaged(i) == {0, BlobMarker[i] + 1}

InitCodec ==
    /\ cin \in [id : HeaderValues, size : HeaderValues]
    /\ cwire = <<>>
    /\ \E c \in SrcChunks : cr = NewReader(<<>>, c)
    /\ cres = <<>>
    /\ cstage = "new"
    /\ input = <<>>
    /\ ReaderIdle
    /\ WriterIdle
    /\ AdapterIdle

\* the wire changes to wire; the reader reads what is on the wire
OnWire(wire) ==
    /\ cwire' = wire
    /\ cr' = [cr EXCEPT !.src = wire]
    /\ UNCHANGED <<input, cin, cres>>
    /\ UNCHANGED readerVars
    /\ UNCHANGED writerVars
    /\ UNCHANGED adapterVars

\* err := WriteBlobHeader(&b, id, size)
EncodeHeader ==
    /\ cstage = "new"
    /\ cstage' = "written"
    /\ OnWire(cwire \o WriteBlobHeader(cin.id, cin.size))

\* the header is followed by other bytes
AppendBody ==
    /\ cstage = "written"
    /\ Len(cwire) = byteHeaderByteLength
    /\ cstage' = cstage
    /\ OnWire(cwire \o BodyBytes)

\* one byte of the marker arrives changed
DamageMarker ==
    /\ cstage = "written"
    /\ Take(cwire, Len(BlobMarker)) = BlobMarker
    /\ cstage' = cstage
    /\ \E i \in 1..Len(BlobMarker) : \E v \in Damaged(i) :
          OnWire([cwire EXCEPT ![i] = v])

\* the state after ReadBlobHeader, hdr its result
HeaderReturns(hdr) ==
    /\ cr' = hdr.b
    /\ cres' = [id |-> hdr.id, size |-> hdr.size, err |-> hdr.err]
    /\ cstage' = "read"
    /\ UNCHANGED <<input, cin, cwire>>
    /\ UNCHANGED readerVars
    /\ UNCHANGED writerVars
    /\ UNCHANGED adapterVars

\* id, size, err := ReadBlobHeader(&b)
DecodeHeader ==
    /\ cstage = "written"
    /\ HeaderReturns(ReadBlobHeader(cr))

NextCodec == EncodeHeader \/ AppendBody \/ DamageMarker \/ DecodeHeader

SpecCodec == InitCodec /\ [][NextCodec]_vars

----------------------------------------------------------------------------
(* Writer *)

\* A sink is the record
\*   data    the bytes it has accepted
\*   room    the number of bytes it accepts before its Write fails for good
\*           (negative: it accepts every byte)
\*   fail    the error its Write returns when it fails
\*   failed  a Write of the sink has failed
\*   closer  "none" when the sink is no io.Closer, else what its Close returns
\*   closed  0 while not closed, else its place in the order of closing
Sink(room, fail, closer) ==
    [data |-> <<>>, room |-> room, fail |-> fail, failed |-> FALSE,
     closer |-> closer, closed |-> 0]

\* a sink that accepts every byte written to it and is no io.Closer
\* (bytes.Buffer)
NewSink == Sink(-1, "nil", "none")

\* sink.Write(p): the sink after the write, the count and the error; a sink
\* that fails accepts the bytes it has room for and returns its error
SinkWrite(sink, p) ==
    IF sink.room < 0
    THEN [sink |-> [sink EXCEPT !.data = @ \o p], nn |-> Len(p), err |-> "nil"]
    ELSE IF Len(p) <= sink.room
    THEN [sink |-> [sink EXCEPT !.data = @ \o p, !.room = @ - Len(p)],
          nn |-> Len(p), err |-> "nil"]
    ELSE [sink |-> [sink EXCEPT !.data = @ \o Take(p, sink.room), !.room = 0,
                                !.failed = TRUE],
          nn |-> sink.room, err |-> sink.fail]

\* NewWriter(textw, binaryw): text mode, a zeroed header buffer
NewWriter ==
    [mode |-> modeText,
     header |-> [i \in 1..byteHeaderByteLength |-> 0],
     headerN |-> 0,
     binaryCurrentWriteSize |-> 0,
     binaryCurrentWriteCount |-> 0]

\* copy(dst[at:], src): overwrite dst from 0-based offset at, up to len(dst)
Copy(dst, at, src) ==
    [i \in 1..Len(dst) |->
        IF i > at /\ i - at <= Len(src) THEN src[i - at] ELSE dst[i]]

\* a step of Write's loop yields the Writer's state ws, the rest of p, the
\* count n, the sinks tw and bw, the error and whether Write returns

\* case modeText with no marker in p: all of p is text; wr the sink's result
TextAll(ws, n, bw, wr) ==
    [ws |-> ws, p |-> <<>>, n |-> n + wr.nn, tw |-> wr.sink, bw |-> bw,
     err |-> wr.err, ret |-> TRUE]

\* a text case that goes on to the header though the text sink has failed
TextUpToIgnoringError(ws, p, idx, n, bw, wr) ==
    [ws |-> [ws EXCEPT !.mode = modeHeader, !.headerN = 0],
     p |-> Drop(p, idx), n |-> n + wr.nn, tw |-> wr.sink, bw |-> bw,
     err |-> "nil", ret |-> FALSE]

\* case modeText with the marker at idx: after the text before it is
\* written (wr the sink's result), the header starts
TextUpTo(ws, p, idx, n, bw, wr) ==
    IF wr.err # "nil"
    THEN [ws |-> ws, p |-> p, n |-> n + wr.nn, tw |-> wr.sink, bw |-> bw,
          err |-> wr.err, ret |-> TRUE]
    ELSE [ws |-> [ws EXCEPT !.mode = modeHeader, !.headerN = 0],
          p |-> Drop(p, idx), n |-> n + wr.nn, tw |-> wr.sink, bw |-> bw,
          err |-> "nil", ret |-> FALSE]

\* case modeText, idx the result of bytes.Index
TextAt(ws, p, idx, n, tw, bw) ==
    IF idx = -1 THEN TextAll(ws, n, bw, SinkWrite(tw, p))
    ELSE TextUpTo(ws, p, idx, n, bw,
                  IF idx > 0 THEN SinkWrite(tw, Take(p, idx))
                  ELSE [sink |-> tw, nn |-> 0, err |-> "nil"])

\* case modeText of Write: look for the marker in p
WriteText(ws, p, n, tw, bw) == TextAt(ws, p, Index(p, BlobMarker), n, tw, bw)

\* case modeHeader, the header invalid: back to text mode, the buffered
\* header bytes written as text (wr the sink's result)
HeaderInvalid(ws, rest, n, bw, hdrErr, wr) ==
    [ws |-> [ws EXCEPT !.mode = modeText], p |-> rest, n |-> n + wr.nn,
     tw |-> wr.sink, bw |-> bw,
     err |-> IF wr.err # "nil" THEN wr.err ELSE hdrErr, ret |-> TRUE]

\* a header case that adds the count of the sink's write to n, which holds
\* the header bytes taken from p already
HeaderWrittenCounted(ws, rest, n, tw, wr) ==
    IF wr.err # "nil"
    THEN [ws |-> ws, p |-> rest, n |-> n + wr.nn, tw |-> tw, bw |-> wr.sink,
          err |-> wr.err, ret |-> TRUE]
    ELSE [ws |-> [ws EXCEPT !.mode = modeBinary], p |-> rest, n |-> n + wr.nn,
          tw |-> tw, bw |-> wr.sink, err |-> "nil", ret |-> FALSE]

\* case modeHeader, the header valid and written to the binary sink (wr the
\* sink's result): binary mode
HeaderWritten(ws, rest, n, tw, wr) ==
    IF wr.err # "nil"
    THEN [ws |-> ws, p |-> rest, n |-> n, tw |-> tw, bw |-> wr.sink,
          err |-> wr.err, ret |-> TRUE]
    ELSE [ws |-> [ws EXCEPT !.mode = modeBinary], p |-> rest, n |-> n, tw |-> tw,
          bw |-> wr.sink, err |-> "nil", ret |-> FALSE]

\* case modeHeader, the header buffer complete in ws.header, hdr the result
\* of ReadBlobHeader on it
HeaderDecoded(ws, rest, n, tw, bw, hdr) ==
    IF hdr.err # "nil"
    THEN HeaderInvalid(ws, rest, n, bw, hdr.err,
                       SinkWrite(tw, Take(ws.header, ws.headerN)))
    ELSE HeaderWritten([ws EXCEPT !.binaryCurrentWriteSize = hdr.size,
                                  !.binaryCurrentWriteCount = 0],
                       rest, n, tw, SinkWrite(bw, ws.header))

\* case modeHeader, p completes the header: ws holds the completed buffer
HeaderComplete(ws, rest, n, tw, bw) ==
    HeaderDecoded(ws, rest, n, tw, bw, ReadBlobHeader(BytesReader(ws.header)))

\* a header case that copies the bytes completing the header to the start
\* of the buffer
WriteHeaderNoOffset(ws, p, n, tw, bw) ==
    LET toRead == byteHeaderByteLength - ws.headerN
        canRead == Len(p)
    IN IF canRead >= toRead
       THEN HeaderComplete(
                [ws EXCEPT !.header = Copy(ws.header, 0, Take(p, toRead))],
                Drop(p, toRead), n + toRead, tw, bw)
       ELSE [ws |-> [ws EXCEPT !.header = Copy(ws.header, ws.headerN, p),
                               !.headerN = @ + canRead],
             p |-> <<>>, n |-> n + canRead, tw |-> tw, bw |-> bw,
             err |-> "nil", ret |-> FALSE]

\* case modeHeader of Write: collect the 16 header bytes, then decode them
WriteHeader(ws, p, n, tw, bw) ==
    LET toRead == byteHeaderByteLength - ws.headerN
        canRead == Len(p)
    IN IF canRead >= toRead
       THEN HeaderComplete(
                [ws EXCEPT !.header = Copy(ws.header, ws.headerN, Take(p, toRead))],
                Drop(p, toRead), n + toRead, tw, bw)
       ELSE [ws |-> [ws EXCEPT !.header = Copy(ws.header, ws.headerN, p),
                               !.headerN = @ + canRead],
             p |-> <<>>, n |-> n + canRead, tw |-> tw, bw |-> bw,
             err |-> "nil", ret |-> FALSE]

\* a binary case that goes on from p[nn+1:], one byte too far
BinaryWrittenSkipping(ws, p, n, tw, wr) ==
    IF wr.err # "nil"
    THEN [ws |-> ws, p |-> p, n |-> n + wr.nn, tw |-> tw, bw |-> wr.sink,
          err |-> wr.err, ret |-> TRUE]
    ELSE [ws |-> [ws EXCEPT !.binaryCurrentWriteCount = @ + wr.nn],
          p |-> Drop(p, wr.nn + 1), n |-> n + wr.nn + 1, tw |-> tw, bw |-> wr.sink,
          err |-> "nil", ret |-> FALSE]

\* case modeBinary after the write to the binary sink, wr its result
BinaryWritten(ws, p, n, tw, wr) ==
    IF wr.err # "nil"
    THEN [ws |-> ws, p |-> p, n |-> n + wr.nn, tw |-> tw, bw |-> wr.sink,
          err |-> wr.err, ret |-> TRUE]
    ELSE [ws |-> [ws EXCEPT !.binaryCurrentWriteCount = @ + wr.nn],
          p |-> Drop(p, wr.nn), n |-> n + wr.nn, tw |-> tw, bw |-> wr.sink,
          err |-> "nil", ret |-> FALSE]

\* a binary case that forwards all of p, beyond the end of the blob
WriteBinaryAll(ws, p, n, tw, bw) ==
    IF ws.binaryCurrentWriteSize - ws.binaryCurrentWriteCount <= 0
    THEN [ws |-> [ws EXCEPT !.mode = modeText], p |-> p, n |-> n, tw |-> tw,
          bw |-> bw, err |-> "nil", ret |-> FALSE]
    ELSE BinaryWritten(ws, p, n, tw, SinkWrite(bw, p))

\* case modeBinary of Write: forward what is left of the current blob
WriteBinary(ws, p, n, tw, bw) ==
    LET remaining == ws.binaryCurrentWriteSize - ws.binaryCurrentWriteCount
    IN IF remaining <= 0
       THEN [ws |-> [ws EXCEPT !.mode = modeText], p |-> p, n |-> n, tw |-> tw,
             bw |-> bw, err |-> "nil", ret |-> FALSE]
       ELSE BinaryWritten(ws, p, n, tw, SinkWrite(bw, Take(p, Min(Len(p), remaining))))

\* the loop of Writer.Write(p): one case per iteration until p is empty or
\* a case returns; WriteNext goes on from the step st just made
RECURSIVE WriteLoop(_, _, _, _, _)
RECURSIVE WriteNext(_)
WriteNext(st) ==
    IF st.ret
    THEN [w |-> st.ws, n |-> st.n, err |-> st.err, tw |-> st.tw, bw |-> st.bw]
    ELSE WriteLoop(st.ws, st.p, st.n, st.tw, st.bw)

WriteLoop(ws, p, n, tw, bw) ==
    IF Len(p) = 0 THEN [w |-> ws, n |-> n, err |-> "nil", tw |-> tw, bw |-> bw]
    ELSE WriteNext(CASE ws.mode = modeText -> WriteText(ws, p, n, tw, bw)
                     [] ws.mode = modeHeader -> WriteHeader(ws, p, n, tw, bw)
                     [] ws.mode = modeBinary -> WriteBinary(ws, p, n, tw, bw))

WriterWrite(ws, p, tw, bw) == WriteLoop(ws, p, 0, tw, bw)

\* the 0-based offsets in Flatten(s) at which the frames' markers start
RECURSIVE MarkerStarts(_, _)
MarkerStarts(s, at) ==
    IF s = <<>> THEN {}
    ELSE (IF Head(s).text THEN {} ELSE {at})
         \cup MarkerStarts(Tail(s), at + Len(SegBytes(Head(s))))

\* offset pos lies strictly inside a marker of the stream
SplitsMarker(s, pos) ==
    \E m \in MarkerStarts(s, 0) : m < pos /\ pos < m + Len(BlobMarker)

\* NewWriter over two sinks, and the stream a caller is about to write
InitWriter ==
    /\ input \in Streams
    /\ w = NewWriter
    /\ textw = NewSink
    /\ binaryw = NewSink
    /\ pending = Flatten(input)
    /\ wpos = 0
    /\ split = FALSE
    /\ wn = 0
    /\ werr = "nil"
    /\ wfailed = FALSE
    /\ cret = "none"
    /\ ReaderIdle
    /\ CodecIdle
    /\ AdapterIdle

\* the state after a call of Write with k bytes, res what WriterWrite computed
WriteReturns(k, res) ==
    /\ w' = res.w
    /\ textw' = res.tw
    /\ binaryw' = res.bw
    /\ wn' = res.n
    /\ werr' = res.err
    /\ pending' = Drop(pending, k)
    /\ wpos' = wpos + k
    /\ split' = (split \/ SplitsMarker(input, wpos + k))
    /\ wfailed' = (res.tw.failed \/ res.bw.failed)
    /\ UNCHANGED <<input, cret>>
    /\ UNCHANGED readerVars
    /\ UNCHANGED codecVars
    /\ UNCHANGED adapterVars

\* one call n, err = w.Write(p), p the next k bytes of the stream; the
\* caller writes no more once a Write has returned an error or the Writer is
\* closed
Write(k) ==
    /\ werr = "nil"
    /\ cret = "none"
    /\ WriteReturns(k, WriterWrite(w, Take(pending, k), textw, binaryw))

\* the caller writes the next k bytes of the stream, k small
WriteChunk == \E k \in 1..Min(MaxWrite, Len(pending)) : Write(k)

\* the caller writes as WriteBlobHeader does, through binary.Write: a range
\* as long as the marker, or as long as an id or a size
WriteField ==
    \E k \in {Len(BlobMarker), 4} : k <= Len(pending) /\ Write(k)

\* the caller writes all that is left at once
WriteAll == Len(pending) > 0 /\ Write(Len(pending))

NextWriter == WriteChunk \/ WriteField \/ WriteAll

SpecWriter == InitWriter /\ [][NextWriter]_vars

\* the streams written to sinks that fail or close: shorter by a segment
ShortStreams == { s \in Streams : Len(s) < MaxSegs }

\* the rooms of the two sinks: none fails; the text sink fails at once or
\* after two bytes; the binary sink fails at once, inside the header, right
\* after the header, or after one body byte
SinkRooms ==
    { [text |-> -1, binary |-> -1],
      [text |-> 0, binary |-> -1],
      [text |-> 2, binary |-> -1],
      [text |-> -1, binary |-> 0],
      [text |-> -1, binary |-> 10],
      [text |-> -1, binary |-> byteHeaderByteLength],
      [text |-> -1, binary |-> byteHeaderByteLength + 1] }

\* NewWriter over two sinks, one of which may fail
InitWriterFaulty ==
    /\ input \in ShortStreams
    /\ w = NewWriter
    /\ \E rooms \in SinkRooms :
          /\ textw = Sink(rooms.text, "text sink error", "none")
          /\ binaryw = Sink(rooms.binary, "binary sink error", "none")
    /\ pending = Flatten(input)
    /\ wpos = 0
    /\ split = FALSE
    /\ wn = 0
    /\ werr = "nil"
    /\ wfailed = FALSE
    /\ cret = "none"
    /\ ReaderIdle
    /\ CodecIdle
    /\ AdapterIdle

SpecWriterFaulty == InitWriterFaulty /\ [][NextWriter]_vars

\* closer.Close() on a sink that is an io.Closer, the nth-th to be closed
SinkClose(sink, nth) ==
    [sink |-> [sink EXCEPT !.closed = nth], err |-> sink.closer]

\* the second half of Close: the binary sink, if it is an io.Closer; err is
\* nil when the text sink is no io.Closer or its Close succeeded
CloseBinaryDone(tw, c) == [tw |-> tw, bw |-> c.sink, err |-> c.err]

CloseBinary(tw, bw) ==
    IF bw.closer # "none" THEN CloseBinaryDone(tw, SinkClose(bw, tw.closed + 1))
    ELSE [tw |-> tw, bw |-> bw, err |-> "nil"]

\* the first half of Close after the text sink's Close, c its result:
\* return its error
CloseAfterText(c, bw) ==
    IF c.err # "nil" THEN [tw |-> c.sink, bw |-> bw, err |-> c.err]
    ELSE CloseBinary(c.sink, bw)

\* Writer.Close
WriterClose(tw, bw) ==
    IF tw.closer # "none" THEN CloseAfterText(SinkClose(tw, 1), bw)
    ELSE CloseBinary(tw, bw)

\* what closing a sink may give: no io.Closer, success, an error
TextClosers == {"none", "nil", "text close error"}
BinaryClosers == {"none", "nil", "binary close error"}

\* NewWriter over two sinks that may be io.Closers
InitWriterClose ==
    /\ input \in ShortStreams
    /\ w = NewWriter
    /\ \E tc \in TextClosers : textw = Sink(-1, "nil", tc)
    /\ \E bc \in BinaryClosers : binaryw = Sink(-1, "nil", bc)
    /\ pending = Flatten(input)
    /\ wpos = 0
    /\ split = FALSE
    /\ wn = 0
    /\ werr = "nil"
    /\ wfailed = FALSE
    /\ cret = "none"
    /\ ReaderIdle
    /\ CodecIdle
    /\ AdapterIdle

\* the state after Close, res what WriterClose computed
CloseReturns(res) ==
    /\ textw' = res.tw
    /\ binaryw' = res.bw
    /\ cret' = res.err
    /\ UNCHANGED <<input, w, pending, wpos, split, wn, werr, wfailed>>
    /\ UNCHANGED readerVars
    /\ UNCHANGED codecVars
    /\ UNCHANGED adapterVars

\* err = w.Close(), once, in whatever mode the Writer is
Close ==
    /\ cret = "none"
    /\ CloseReturns(WriterClose(textw, binaryw))

NextWriterClose == WriteChunk \/ WriteField \/ WriteAll \/ Close

SpecWriterClose == InitWriterClose /\ [][NextWriterClose]_vars

----------------------------------------------------------------------------
(* What the claims about the Reader speak of *)

\* the source bytes the Reader has not consumed yet
Unconsumed == b.buf \o b.src

\* Reader.Read has reported end-of-stream
ReaderAtEOF == lastErr = "EOF"

\* the stream holds a text segment that is a strict prefix of the marker
HasPartialMarker ==
    \E i \in 1..Len(input) :
        /\ input[i].text
        /\ \E k \in 1..(Len(BlobMarker) - 1) : input[i].bytes = Take(BlobMarker, k)

\* the stream holds a frame of size 0
HasEmptyFrame == \E i \in 1..Len(input) : ~input[i].text /\ input[i].bytes = <<>>

\* the Reader stands after j whole segments and t bytes into the text
\* segment that follows them, has produced exactly the text before that
\* point and has handled exactly the frames before it
StandsAt(j, t) ==
    /\ t > 0 => (j < Len(input) /\ input[j + 1].text /\ t <= Len(input[j + 1].bytes))
    /\ Unconsumed = Drop(Flatten(SubSeq(input, j + 1, Len(input))), t)
    /\ out = ExpectedText(SubSeq(input, 1, j))
               \o (IF t > 0 THEN Take(input[j + 1].bytes, t) ELSE <<>>)
    /\ Len(handled) = Len(ExpectedFrames(SubSeq(input, 1, j)))

(* C1: with a handler that returns success, for every chunking of the      *)
(* source and every sequence of Read buffer sizes, the bytes returned by   *)
(* Read are at every moment a prefix of the concatenated text segments,    *)
(* Read reports no error but end-of-stream, and at end-of-stream they are  *)
(* exactly the concatenated text segments.                                 *)
C1_ReaderTextOutput ==
    ~herr =>
        /\ IsPrefix(out, ExpectedText(input))
        /\ lastErr \in {"nil", "EOF"}
        /\ ReaderAtEOF => out = ExpectedText(input)

C1_Witness ==
    /\ ReaderAtEOF /\ ~herr
    /\ Len(input) = 3 /\ input[1].text /\ ~input[2].text /\ input[3].text
    /\ input[2].bytes # <<>>
    /\ b.chunk = 3
    /\ out = input[1].bytes \o input[3].bytes

(* C2: with a handler that returns success, the handler invocations are    *)
(* at every moment the first frames of the stream, in stream order, each   *)
(* with its frame's id and size and with body bytes that are a prefix of   *)
(* the frame's body (the whole body for a handler that reads to the end);  *)
(* at end-of-stream there is exactly one invocation per frame.             *)
C2_ReaderBlobOrder ==
    ~herr =>
        LET frames == ExpectedFrames(input)
        IN /\ Len(handled) <= Len(frames)
           /\ \A i \in 1..Len(handled) :
                /\ handled[i].id = frames[i].id
                /\ handled[i].size = Len(frames[i].bytes)
                /\ IsPrefix(handled[i].data, frames[i].bytes)
                /\ handler.kind = "all" => handled[i].data = frames[i].bytes
           /\ ReaderAtEOF => Len(handled) = Len(frames)

C2_Witness ==
    /\ ReaderAtEOF /\ ~herr /\ handler.kind = "all"
    /\ Len(input) = 3 /\ \A i \in 1..3 : ~input[i].text
    /\ input[1].id # input[2].id
    /\ Len(handled) = 3
    /\ handled[2].data = input[2].bytes /\ handled[2].id = input[2].id

(* C5: once the handler has returned an error, no later Read call produces *)
(* a text byte or invokes the handler.                                     *)
C5_HandlerFailureIsFinal ==
    [][herr => (out' = out /\ handled' = handled)]_vars

(* C6: with a handler that returns success, however few body bytes it      *)
(* reads, every Read call leaves the Reader at a text position or at a     *)
(* segment boundary, never inside a frame, with exactly the text before    *)
(* that point produced and exactly the frames before it handled.           *)
C6_ShortReadDiscarded ==
    ~herr =>
        \E j \in 0..Len(input) :
            \E t \in 0..(IF j < Len(input) /\ input[j + 1].text
                         THEN Len(input[j + 1].bytes) ELSE 0) :
                StandsAt(j, t)

C6_Witness ==
    /\ ReaderAtEOF /\ ~herr
    /\ Len(input) = 3 /\ ~input[1].text /\ ~input[2].text /\ input[3].text
    /\ Len(handled) = 2
    /\ handled[1].size = 3 /\ Len(handled[1].data) = 1
    /\ out = input[3].bytes

(* C7: with a handler that returns success, a stream holding a strict      *)
(* prefix of the marker as text yields that text unmodified: no handler    *)
(* invocation beyond the stream's frames, the output a prefix of the       *)
(* text, and at end-of-stream the whole text produced and the whole        *)
(* source consumed.                                                        *)
C7_ReaderPartialMarker ==
    (~herr /\ HasPartialMarker) =>
        /\ IsPrefix(out, ExpectedText(input))
        /\ Len(handled) <= Len(ExpectedFrames(input))
        /\ ReaderAtEOF => (out = ExpectedText(input) /\ Unconsumed = <<>>)

C7_Witness ==
    /\ ReaderAtEOF /\ ~herr
    /\ Len(input) = 3 /\ input[1].text /\ ~input[2].text /\ input[3].text
    /\ input[1].bytes = Take(BlobMarker, 4)
    /\ input[3].bytes = Take(BlobMarker, 7)
    /\ b.chunk = 1
    /\ Unconsumed = <<>>
    /\ out = Take(BlobMarker, 4) \o Take(BlobMarker, 7)

(* C9: a frame of size 0 is handed to the handler with a body that yields  *)
(* no byte and reports end-of-stream on every read; with a handler that    *)
(* returns success each frame of a stream that holds such a frame is       *)
(* handled once, in order, and at end-of-stream the text around the frame  *)
(* has been produced with nothing in between.                              *)
C9_ZeroLengthBlob ==
    /\ \A i \in 1..Len(handled) :
          handled[i].size = 0 =>
              /\ handled[i].data = <<>>
              /\ \A k \in 1..Len(handled[i].errs) : handled[i].errs[k] = "EOF"
    /\ (~herr /\ HasEmptyFrame) =>
          LET frames == ExpectedFrames(input)
          IN /\ Len(handled) <= Len(frames)
             /\ \A i \in 1..Len(handled) : handled[i].id = frames[i].id
             /\ ReaderAtEOF =>
                   (Len(handled) = Len(frames) /\ out = ExpectedText(input))

C9_Witness ==
    /\ ReaderAtEOF /\ ~herr
    /\ Len(input) = 3 /\ input[1].text /\ ~input[2].text /\ input[3].text
    /\ input[2].bytes = <<>>
    /\ Len(handled) = 1 /\ handled[1].size = 0 /\ handled[1].errs = <<"EOF">>
    /\ out = input[1].bytes \o input[3].bytes

(* C10: the body handed to the handler yields at most size bytes, all of   *)
(* them bytes of the frame's body, and once it has reported end-of-stream  *)
(* it reports it on every later read; a handler that reads to the end      *)
(* gets exactly size bytes; the bytes after the body are left for text     *)
(* scanning and are produced as text.                                      *)
C10_BoundedView ==
    /\ \A i \in 1..Len(handled) :
          /\ Len(handled[i].data) <= handled[i].size
          /\ \A k \in 1..Len(handled[i].errs) :
                handled[i].errs[k] = "EOF" =>
                    \A m \in k..Len(handled[i].errs) : handled[i].errs[m] = "EOF"
    /\ ~herr =>
          /\ \A i \in 1..Len(handled) :
                /\ i <= Len(ExpectedFrames(input))
                /\ IsPrefix(handled[i].data, ExpectedFrames(input)[i].bytes)
                /\ handler.kind = "all" =>
                      /\ Len(handled[i].data) = handled[i].size
                      /\ handled[i].errs[Len(handled[i].errs)] = "EOF"
          /\ ReaderAtEOF => out = ExpectedText(input)

C10_Witness ==
    /\ ReaderAtEOF /\ ~herr
    /\ handler.kind = "reads" /\ handler.k * handler.sz > 3
    /\ Len(input) = 2 /\ ~input[1].text /\ input[2].text
    /\ Len(handled) = 1 /\ handled[1].size = 3
    /\ handled[1].data = input[1].bytes
    /\ handled[1].errs = <<"nil", "nil", "EOF">>
    /\ out = input[2].bytes

----------------------------------------------------------------------------
(* What the claims about the Writer speak of *)

\* every byte of the stream has been passed to Write
AllWritten == pending = <<>>

\* the 0-based offset at which the stream's first marker ends, or the
\* stream's length when it holds no frame
FirstMarkerEnd ==
    LET ms == MarkerStarts(input, 0)
    IN IF ms = {} THEN Len(Flatten(input)) + 1
       ELSE (CHOOSE m \in ms : \A x \in ms : m <= x) + Len(BlobMarker)

(* C3: when every marker has arrived whole inside one Write call, however  *)
(* the other bytes were divided into calls, the text sink holds at every   *)
(* moment a prefix of the concatenated text and the binary sink a prefix   *)
(* of the concatenated frames, no Write reports an error, and once the     *)
(* whole stream is written the sinks hold exactly the text and exactly     *)
(* the frames.                                                             *)
C3_WriterRouting ==
    ~split =>
        /\ IsPrefix(textw.data, ExpectedText(input))
        /\ IsPrefix(binaryw.data, ExpectedBinary(input))
        /\ werr = "nil"
        /\ AllWritten =>
              /\ textw.data = ExpectedText(input)
              /\ binaryw.data = ExpectedBinary(input)

C3_Witness ==
    /\ AllWritten /\ ~split
    /\ Len(input) = 3 /\ ~input[1].text /\ ~input[2].text /\ input[3].text
    /\ input[1].bytes # <<>> /\ input[2].bytes = <<>>
    /\ input[3].bytes = <<97>>
    /\ wn = 3
    /\ textw.data = input[3].bytes
    /\ binaryw.data = ExpectedBinary(input)

(* C4: once the whole stream is written the sinks hold exactly the text    *)
(* and exactly the frames, however the bytes were divided into Write       *)
(* calls, also when a marker was split across calls.                       *)
C4_ChunkingIndependent ==
    AllWritten =>
        /\ textw.data = ExpectedText(input)
        /\ binaryw.data = ExpectedBinary(input)

(* C8: as long as the bytes written so far do not hold a full marker (they *)
(* may end in, or hold, a strict prefix of it), wherever the call          *)
(* boundaries fell, the text sink holds exactly the bytes written, the     *)
(* binary sink holds nothing and the Writer is in text mode.               *)
C8_WriterPartialMarker ==
    wpos < FirstMarkerEnd =>
        /\ textw.data = Take(Flatten(input), wpos)
        /\ binaryw.data = <<>>
        /\ w.mode = modeText
        /\ werr = "nil"

C8_Witness ==
    /\ Len(input) = 2 /\ input[1].text /\ ~input[2].text
    /\ input[1].bytes = Take(BlobMarker, 7)
    /\ wpos = FirstMarkerEnd - 1
    /\ wn = 2
    /\ split
    /\ textw.data = Take(BlobMarker, 7) \o Take(BlobMarker, 7)

----------------------------------------------------------------------------
(* What the claims about the header codec speak of *)

\* the bytes of the wire that ReadBlobHeader has left unread
Unread == cr.buf \o cr.src

\* the wire starts with the header as WriteBlobHeader wrote it
HeaderIntact ==
    /\ Len(cwire) >= byteHeaderByteLength
    /\ Take(cwire, Len(BlobMarker)) = BlobMarker

(* C11: WriteBlobHeader writes exactly 16 bytes: the marker, then the id,  *)
(* then the size, each with its least significant byte first; and          *)
(* ReadBlobHeader on those bytes, however the source delivers them,        *)
(* returns the same id and size with no error and leaves unread exactly    *)
(* what follows the 16 bytes.                                              *)
C11_HeaderRoundTrip ==
    /\ (cstage # "new" /\ HeaderIntact) =>
          /\ Len(WriteBlobHeader(cin.id, cin.size)) = 8 + 4 + 4
          /\ IsPrefix(WriteBlobHeader(cin.id, cin.size), cwire)
          /\ \A k \in 0..3 :
                /\ cwire[9 + k] = (cin.id \div (256 ^ k)) % 256
                /\ cwire[13 + k] = (cin.size \div (256 ^ k)) % 256
    /\ (cstage = "read" /\ HeaderIntact) =>
          /\ cres = [id |-> cin.id, size |-> cin.size, err |-> "nil"]
          /\ Unread = Drop(cwire, 8 + 4 + 4)

C11_Witness ==
    /\ cstage = "read" /\ HeaderIntact
    /\ cin.id = 305419896 /\ cin.size = 2147483647
    /\ cr.chunk = 3
    /\ cres.id = 305419896 /\ cres.size = 2147483647 /\ cres.err = "nil"
    /\ Unread = BodyBytes

(* C12: when the first eight bytes of the wire differ from the marker in   *)
(* some position, ReadBlobHeader fails with io.ErrUnexpectedEOF, which is  *)
(* not io.EOF, returns id 0 and size 0, and leaves unread exactly what     *)
(* follows the eight bytes.                                                *)
C12_MarkerCheck ==
    (cstage = "read" /\ ~HeaderIntact) =>
        /\ cres.err = "ErrUnexpectedEOF"
        /\ cres.err # "EOF"
        /\ cres.id = 0 /\ cres.size = 0
        /\ Unread = Drop(cwire, 8)

C12_Witness ==
    /\ cstage = "read"
    /\ Take(cwire, 7) = Take(BlobMarker, 7) /\ cwire[8] # BlobMarker[8]
    /\ cin.id = 42 /\ cin.size = 100
    /\ cr.chunk = 3
    /\ cres = [id |-> 0, size |-> 0, err |-> "ErrUnexpectedEOF"]
    /\ Len(Unread) = 8 + Len(BodyBytes)

----------------------------------------------------------------------------
(* What the claims about failing sinks and Close speak of *)

\* the header bytes the Writer holds and has not written to a sink
Buffered == IF w.mode = modeHeader THEN w.headerN ELSE 0

\* the bytes the two sinks and the header buffer hold together
Held == Len(textw.data) + Len(binaryw.data) + Buffered

\* c is a and b shuffled together, each in its own order
RECURSIVE IsMerge(_, _, _)
IsMerge(a, bb, c) ==
    IF c = <<>> THEN a = <<>> /\ bb = <<>>
    ELSE \/ (a # <<>> /\ Head(a) = Head(c) /\ IsMerge(Tail(a), bb, Tail(c)))
         \/ (bb # <<>> /\ Head(bb) = Head(c) /\ IsMerge(a, Tail(bb), Tail(c)))

\* the text bytes among the first pos bytes of stream s
RECURSIVE RouteText(_, _)
RouteText(s, pos) ==
    IF s = <<>> \/ pos <= 0 THEN <<>>
    ELSE (IF Head(s).text THEN Take(SegBytes(Head(s)), pos) ELSE <<>>)
         \o RouteText(Tail(s), pos - Len(SegBytes(Head(s))))

\* the frame bytes (headers and bodies) among the first pos bytes of stream s
RECURSIVE RouteBinary(_, _)
RouteBinary(s, pos) ==
    IF s = <<>> \/ pos <= 0 THEN <<>>
    ELSE (IF Head(s).text THEN <<>> ELSE Take(SegBytes(Head(s)), pos))
         \o RouteBinary(Tail(s), pos - Len(SegBytes(Head(s))))

\* the sinks hold exactly what the first pos bytes of the stream route to them
CutAt(pos) ==
    /\ textw.data = RouteText(input, pos)
    /\ binaryw.data = RouteBinary(input, pos)

(* C13: every Write(p) returns a count between 0 and len(p); when it       *)
(* returns no error the count is len(p), also when the bytes were only     *)
(* buffered as header bytes; when a text or body write failed the count    *)
(* is the number of bytes of p that reached a sink or the header buffer.   *)
C13_ByteAccounting ==
    [][wpos' # wpos =>
          /\ wn' \in 0..(wpos' - wpos)
          /\ werr' = "nil" => wn' = wpos' - wpos
          /\ (werr' # "nil" /\ w'.mode # modeHeader) => wn' = Held' - Held]_vars

C13_Witness ==
    /\ ~wfailed /\ werr = "nil"
    /\ w.mode = modeHeader /\ w.headerN = 8 + 4
    /\ wn = 4 /\ wpos = 8 + 4
    /\ binaryw.data = <<>> /\ textw.data = <<>>

(* C14: after Close each sink that is an io.Closer has been closed, the    *)
(* text sink before the binary sink, whatever the Writer's mode and        *)
(* whatever the sinks' Close return; and when a Close failed, Close        *)
(* returns such an error.                                                  *)
C14_CloseBoth ==
    cret # "none" =>
        /\ textw.closer # "none" => textw.closed > 0
        /\ binaryw.closer # "none" => binaryw.closed > 0
        /\ (textw.closed > 0 /\ binaryw.closed > 0) => textw.closed < binaryw.closed
        /\ ({textw.closer, binaryw.closer} \ {"none", "nil"} # {}) =>
              cret \in {textw.closer, binaryw.closer} \ {"none", "nil"}

(* C15: as long as no sink write has failed the Writer is in one of its    *)
(* three modes, the bytes in the text sink, in the binary sink and in the  *)
(* header buffer add up to the bytes passed to Write, the header buffer    *)
(* holds the last of them, and the two sinks hold the bytes before those,  *)
(* each byte in one sink, in stream order.                                 *)
C15_ByteConservation ==
    ~wfailed =>
        /\ w.mode \in {modeText, modeHeader, modeBinary}
        /\ Held = wpos
        /\ Take(w.header, Buffered) = SubSeq(Flatten(input), wpos - Buffered + 1, wpos)
        /\ IsMerge(textw.data, binaryw.data, Take(Flatten(input), wpos - Buffered))

C15_Witness ==
    /\ ~wfailed /\ AllWritten
    /\ Len(input) = 2 /\ input[1].text /\ ~input[2].text
    /\ input[1].bytes = Take(BlobMarker, 4) /\ input[2].bytes # <<>>
    /\ split
    /\ w.mode = modeText
    /\ Len(textw.data) = wpos /\ binaryw.data = <<>>

(* C19: the Write call in which a sink write fails returns that sink's     *)
(* error, only one sink write fails in it, and (when no marker was split   *)
(* across calls) the sinks then hold exactly what some prefix of the       *)
(* stream routes to them: nothing was written after the failed write.      *)
C19_SinkFailureTerminal ==
    [][(~wfailed /\ wfailed') =>
          /\ ~(textw'.failed /\ binaryw'.failed)
          /\ werr' = (IF textw'.failed THEN textw.fail ELSE binaryw.fail)
          /\ ~split' => \E pos \in 0..wpos' : CutAt(pos)']_vars

C19_Witness ==
    /\ wfailed /\ textw.failed /\ werr = "text sink error"
    /\ Len(input) = 2 /\ ~input[1].text /\ input[2].text
    /\ input[1].bytes # <<>> /\ input[2].bytes = Take(BlobMarker, 7)
    /\ ~split
    /\ Len(textw.data) = 2
    /\ binaryw.data = SegBytes(input[1])

(* C20: as long as no sink write has failed, Write has never returned an   *)
(* error (so never a decode error, which the branch that flushes the       *)
(* header as text always returns), a header buffer being filled starts     *)
(* with the whole marker, and a completed header buffer decodes.           *)
C20_HeaderBufferInvariant ==
    ~wfailed =>
        /\ werr = "nil"
        /\ w.mode = modeHeader =>
              /\ w.headerN \in Len(BlobMarker)..(byteHeaderByteLength - 1)
              /\ Take(w.header, Len(BlobMarker)) = BlobMarker
        /\ w.mode = modeBinary =>
              /\ Take(w.header, Len(BlobMarker)) = BlobMarker
              /\ ReadBlobHeader(BytesReader(w.header)).err = "nil"

C20_Witness ==
    /\ ~wfailed /\ werr = "nil"
    /\ w.mode = modeBinary /\ w.headerN = 8 + 4
    /\ w.binaryCurrentWriteSize = 3 /\ w.binaryCurrentWriteCount = 1
    /\ Len(binaryw.data) = byteHeaderByteLength + 1

----------------------------------------------------------------------------
(* A source that ends early *)

(* C16: when the source ends after the whole marker of its last frame but  *)
(* before the frame's id, size and body have all arrived, and the handler  *)
(* returns success, Read never reports the plain end-of-stream it reports  *)
(* when the text simply ends.                                              *)
C16_PrematureEndOfStream ==
    ~herr => lastErr # "EOF"

----------------------------------------------------------------------------
(* The concurrent pipe adapter: the Writer in front of a text pipe and a   *)
(* binary pipe, a feeder task that copies the source into the Writer, a    *)
(* blob-consumer task that reads headers and bodies from the binary pipe   *)
(* and invokes the handler, and the public reader, which is the read-end   *)
(* of the text pipe.  Errors: "ErrClosedPipe" is io.ErrClosedPipe.         *)
(*                                                                         *)
(* A pipe is the record                                                    *)
(*   data     the bytes of the write in flight that no read has taken yet  *)
(*   busy     a write is in flight (its writer is blocked)                 *)
(*   rclosed  the number of times its read-end has been closed             *)
(*   wclosed  the number of times its write-end has been closed            *)

NewPipe == [data |-> <<>>, busy |-> FALSE, rclosed |-> 0, wclosed |-> 0]

\* reads and writes of a pipe stop blocking once either end is closed
PipeClosed(pp) == pp.rclosed > 0 \/ pp.wclosed > 0

\* a write of bytes starts: it blocks until reads have taken every byte
PipeWrite(pp, bytes) == [pp EXCEPT !.data = bytes, !.busy = TRUE]

\* a read takes k of the bytes in flight
PipeTake(pp, k) == [pp EXCEPT !.data = Drop(@, k)]

\* the write in flight returns
PipeWritten(pp) == [pp EXCEPT !.data = <<>>, !.busy = FALSE]

\* the write-end of the pipe is closed
CloseWrite(pp) == [pp EXCEPT !.wclosed = @ + 1]

\* the read-end of the pipe is closed
CloseRead(pp) == [pp EXCEPT !.rclosed = @ + 1]

\* the sink writes the Writer makes for a segment that arrives whole: text
\* to the text pipe; a frame's header, then its body, to the binary pipe
SegOps(g) ==
    IF g.text THEN <<[text |-> TRUE, bytes |-> g.bytes]>>
    ELSE <<[text |-> FALSE, bytes |-> WriteBlobHeader(g.id, Len(g.bytes))]>>
         \o (IF g.bytes = <<>> THEN <<>> ELSE <<[text |-> FALSE, bytes |-> g.bytes]>>)

RECURSIVE FeedOps(_)
FeedOps(s) == IF s = <<>> THEN <<>> ELSE SegOps(Head(s)) \o FeedOps(Tail(s))

\* the errors that only tell of the end of the stream or of a closed pipe
Benign == {"nil", "EOF", "ErrClosedPipe"}

\* the adapter over a source, with a handler: three tasks about to start
InitAdapter ==
    /\ input \in ShortStreams
    /\ handler \in Handlers
    /\ feeder = [pc |-> "copy", ops |-> FeedOps(input), err |-> "nil"]
    /\ consumer = [pc |-> "header", got |-> <<>>, id |-> 0, left |-> 0,
                   errs |-> <<>>, err |-> "nil"]
    /\ tpipe = NewPipe
    /\ bpipe = NewPipe
    /\ caller = [pc |-> "open", text |-> <<>>, eof |-> FALSE, ret |-> "none"]
    /\ aerrs = <<>>
    /\ b = <<>> /\ out = <<>> /\ handled = <<>>
    /\ lastN = 0 /\ lastErr = "nil" /\ herr = FALSE
    /\ WriterIdle
    /\ CodecIdle

\* what a step of the adapter leaves alone
AdapterFrame ==
    /\ UNCHANGED <<input, handler, b, out, lastN, lastErr, herr>>
    /\ UNCHANGED writerVars
    /\ UNCHANGED codecVars

\* the pipe the feeder's next write goes to
FeederPipe == IF Head(feeder.ops).text THEN tpipe ELSE bpipe

\* the feeder's pipe becomes pp
FeederPipeBecomes(pp) ==
    IF Head(feeder.ops).text THEN tpipe' = pp /\ bpipe' = bpipe
    ELSE bpipe' = pp /\ tpipe' = tpipe

\* the feeder: the Writer starts a write to a pipe; on a closed pipe the
\* write fails, the Writer returns the error and the copy ends
FeederWrite ==
    /\ feeder.pc = "copy" /\ feeder.ops # <<>>
    /\ IF PipeClosed(FeederPipe)
       THEN /\ feeder' = [feeder EXCEPT !.pc = "closeText", !.err = "ErrClosedPipe"]
            /\ UNCHANGED <<tpipe, bpipe>>
       ELSE /\ feeder' = [feeder EXCEPT !.pc = "blocked"]
            /\ FeederPipeBecomes(PipeWrite(FeederPipe, Head(feeder.ops).bytes))
    /\ UNCHANGED <<consumer, caller, aerrs, handled>>
    /\ AdapterFrame

\* the feeder: the write in flight returns, when its bytes are taken or the
\* pipe is closed
FeederResume ==
    /\ feeder.pc = "blocked"
    /\ PipeClosed(FeederPipe) \/ FeederPipe.data = <<>>
    /\ feeder' = IF PipeClosed(FeederPipe)
                 THEN [feeder EXCEPT !.pc = "closeText", !.err = "ErrClosedPipe"]
                 ELSE [feeder EXCEPT !.pc = "copy", !.ops = Tail(@)]
    /\ FeederPipeBecomes(PipeWritten(FeederPipe))
    /\ UNCHANGED <<consumer, caller, aerrs, handled>>
    /\ AdapterFrame

\* the feeder: the source is exhausted, the copy ends without error
FeederEOF ==
    /\ feeder.pc = "copy" /\ feeder.ops = <<>>
    /\ feeder' = [feeder EXCEPT !.pc = "closeText"]
    /\ UNCHANGED <<consumer, tpipe, bpipe, caller, aerrs, handled>>
    /\ AdapterFrame

\* the feeder, on completion: closes the write-end of the text pipe
FeederCloseText ==
    /\ feeder.pc = "closeText"
    /\ feeder' = [feeder EXCEPT !.pc = "closeBinary"]
    /\ tpipe' = CloseWrite(tpipe)
    /\ UNCHANGED <<consumer, bpipe, caller, aerrs, handled>>
    /\ AdapterFrame

\* the feeder, on completion: closes the write-end of the binary pipe and
\* ends with the error of the copy
FeederCloseBinary ==
    /\ feeder.pc = "closeBinary"
    /\ feeder' = [feeder EXCEPT !.pc = "done"]
    /\ bpipe' = CloseWrite(bpipe)
    /\ aerrs' = Append(aerrs, feeder.err)
    /\ UNCHANGED <<consumer, tpipe, caller, handled>>
    /\ AdapterFrame

FeederStep ==
    FeederWrite \/ FeederResume \/ FeederEOF \/ FeederCloseText \/ FeederCloseBinary

\* the bytes the read of the header's next field asks for: the marker,
\* then the id, then the size
FieldNeed(got) ==
    IF Len(got) < Len(BlobMarker) THEN Len(BlobMarker) - Len(got)
    ELSE IF Len(got) < Len(BlobMarker) + 4 THEN Len(BlobMarker) + 4 - Len(got)
    ELSE byteHeaderByteLength - Len(got)

\* the blob consumer ends with error e
ConsumerEnds(e) ==
    /\ consumer' = [consumer EXCEPT !.pc = "done", !.err = e]
    /\ aerrs' = Append(aerrs, e)

\* the blob consumer after a read of header bytes, got the bytes so far:
\* once they are all there the header is decoded as ReadBlobHeader does,
\* and the handler is invoked with the id and a view of size bytes
ConsumerDecoded(got) ==
    IF Len(got) < byteHeaderByteLength
    THEN /\ consumer' = [consumer EXCEPT !.got = got]
         /\ UNCHANGED <<aerrs, handled>>
    ELSE IF ~IsMarker(Take(got, Len(BlobMarker)))
    THEN /\ ConsumerEnds("ErrUnexpectedEOF")
         /\ UNCHANGED handled
    ELSE /\ consumer' = [consumer EXCEPT
                !.pc = "handler", !.got = <<>>,
                !.id = DecodeLE32(SubSeq(got, 9, 12)),
                !.left = DecodeLE32(SubSeq(got, 13, 16)),
                !.errs = <<>>]
         /\ handled' = Append(handled, [id |-> DecodeLE32(SubSeq(got, 9, 12)),
                                        size |-> DecodeLE32(SubSeq(got, 13, 16))])
         /\ UNCHANGED aerrs

\* the blob consumer reads the next header from the binary pipe; the end of
\* the stream between two frames ends the task without error
ConsumerHeader ==
    /\ consumer.pc = "header"
    /\ PipeClosed(bpipe) \/ bpipe.data # <<>>
    /\ IF PipeClosed(bpipe)
       THEN /\ ConsumerEnds(IF Len(consumer.got) \in {0, 8, 8 + 4}
                            THEN "nil" ELSE "ErrUnexpectedEOF")
            /\ UNCHANGED <<bpipe, handled>>
       ELSE /\ bpipe' = PipeTake(bpipe, FieldNeed(consumer.got))
            /\ ConsumerDecoded(
                  consumer.got \o Take(bpipe.data, FieldNeed(consumer.got)))
    /\ UNCHANGED <<feeder, tpipe, caller>>
    /\ AdapterFrame

\* the handler reads from the bounded view of the body: end-of-stream when
\* the view is exhausted or the pipe is closed, else bytes in flight
ConsumerHandlerRead ==
    /\ consumer.pc = "handler"
    /\ ~HandlerStops(handler, consumer.errs)
    /\ consumer.left = 0 \/ PipeClosed(bpipe) \/ bpipe.data # <<>>
    /\ IF consumer.left = 0 \/ PipeClosed(bpipe)
       THEN /\ consumer' = [consumer EXCEPT !.errs = Append(@, "EOF")]
            /\ UNCHANGED bpipe
       ELSE /\ consumer' = [consumer EXCEPT
                   !.errs = Append(@, "nil"),
                   !.left = @ - Min(Min(handler.sz, @), Len(bpipe.data))]
            /\ bpipe' = PipeTake(bpipe, Min(Min(handler.sz, consumer.left),
                                            Len(bpipe.data)))
    /\ UNCHANGED <<feeder, tpipe, caller, aerrs, handled>>
    /\ AdapterFrame

\* the handler returns: on failure the consumer goes to close the write-end
\* of the binary pipe, else it drains the view
ConsumerHandlerReturn ==
    /\ consumer.pc = "handler"
    /\ HandlerStops(handler, consumer.errs)
    /\ consumer' = [consumer EXCEPT
          !.pc = IF consumer.id = handler.failId THEN "closeBinary" ELSE "drain"]
    /\ UNCHANGED <<feeder, tpipe, bpipe, caller, aerrs, handled>>
    /\ AdapterFrame

\* the handler has failed: the consumer closes the write-end of the binary
\* pipe and ends with the handler's failure
ConsumerCloseBinary ==
    /\ consumer.pc = "closeBinary"
    /\ bpipe' = CloseWrite(bpipe)
    /\ ConsumerEnds("handler error")
    /\ UNCHANGED <<feeder, tpipe, caller, handled>>
    /\ AdapterFrame

\* the consumer drains what the handler left of the view, then reads the
\* next header
ConsumerDrain ==
    /\ consumer.pc = "drain"
    /\ consumer.left = 0 \/ PipeClosed(bpipe) \/ bpipe.data # <<>>
    /\ IF consumer.left = 0 \/ PipeClosed(bpipe)
       THEN /\ consumer' = [consumer EXCEPT !.pc = "header", !.left = 0]
            /\ UNCHANGED bpipe
       ELSE /\ consumer' = [consumer EXCEPT
                   !.left = @ - Min(Min(DiscardChunk, @), Len(bpipe.data))]
            /\ bpipe' = PipeTake(bpipe, Min(Min(DiscardChunk, consumer.left),
                                            Len(bpipe.data)))
    /\ UNCHANGED <<feeder, tpipe, caller, aerrs, handled>>
    /\ AdapterFrame

ConsumerStep ==
    \/ ConsumerHeader
    \/ ConsumerHandlerRead
    \/ ConsumerHandlerReturn
    \/ ConsumerCloseBinary
    \/ ConsumerDrain

\* the caller reads text from the public reader into a buffer of lenp bytes
CallerRead ==
    /\ caller.pc = "open" /\ ~caller.eof
    /\ PipeClosed(tpipe) \/ tpipe.data # <<>>
    /\ IF PipeClosed(tpipe)
       THEN /\ caller' = [caller EXCEPT !.eof = TRUE]
            /\ UNCHANGED tpipe
       ELSE \E lenp \in 1..MaxBuf :
               /\ caller' = [caller EXCEPT !.text = @ \o Take(tpipe.data, lenp)]
               /\ tpipe' = PipeTake(tpipe, lenp)
    /\ UNCHANGED <<feeder, consumer, bpipe, aerrs, handled>>
    /\ AdapterFrame

\* the caller closes the public reader: first the read-end of the text pipe
CallerClose ==
    /\ caller.pc = "open"
    /\ caller' = [caller EXCEPT !.pc = "waiting"]
    /\ tpipe' = CloseRead(tpipe)
    /\ UNCHANGED <<feeder, consumer, bpipe, aerrs, handled>>
    /\ AdapterFrame

\* a join that returns the first error of any kind
FirstError(errs) ==
    IF \A i \in 1..Len(errs) : errs[i] = "nil" THEN "nil"
    ELSE errs[CHOOSE i \in 1..Len(errs) :
                /\ errs[i] # "nil"
                /\ \A j \in 1..(i - 1) : errs[j] = "nil"]

\* the first of the tasks' errors that is not benign, or nil
FirstRealError(errs) ==
    IF \A i \in 1..Len(errs) : errs[i] \in Benign THEN "nil"
    ELSE errs[CHOOSE i \in 1..Len(errs) :
                /\ errs[i] \notin Benign
                /\ \A j \in 1..(i - 1) : errs[j] \in Benign]

\* the close of the public reader returns once both tasks have ended
CallerJoin ==
    /\ caller.pc = "waiting"
    /\ feeder.pc = "done" /\ consumer.pc = "done"
    /\ caller' = [caller EXCEPT !.pc = "closed", !.ret = FirstRealError(aerrs)]
    /\ UNCHANGED <<feeder, consumer, tpipe, bpipe, aerrs, handled>>
    /\ AdapterFrame

NextAdapter == FeederStep \/ ConsumerStep \/ CallerRead \/ CallerClose \/ CallerJoin

\* every task that can take a step does so in the end; the caller is free
\* never to read and never to close
SpecAdapter ==
    /\ InitAdapter
    /\ [][NextAdapter]_vars
    /\ WF_vars(FeederStep)
    /\ WF_vars(ConsumerStep)
    /\ WF_vars(CallerJoin)

----------------------------------------------------------------------------
(* What the claims about the adapter speak of *)

\* no end of a pipe has been closed more than once
NoDoubleClose ==
    /\ tpipe.rclosed <= 1 /\ tpipe.wclosed <= 1
    /\ bpipe.rclosed <= 1 /\ bpipe.wclosed <= 1

\* the feeder and the blob consumer have ended and the close has returned
AllStopped == caller.pc = "closed" /\ feeder.pc = "done" /\ consumer.pc = "done"

\* a close of the public reader is followed by the end of both tasks and
\* the return of the close
CloseTerminates == (caller.pc = "waiting") ~> AllStopped

(* C17: once the caller closes the public reader, whatever the feeder and  *)
(* the blob consumer are doing or blocked on, both tasks end and the close *)
(* returns; and no end of a pipe is ever closed twice.                     *)
C17_AdapterLiveness == []NoDoubleClose /\ CloseTerminates

----------------------------------------------------------------------------
(* What the claims about the order and the progress of Reader.Read speak   *)
(* of                                                                      *)

\* the position in the stream s of its k-th frame
RECURSIVE FrameIndex(_, _)
FrameIndex(s, k) ==
    IF ~Head(s).text /\ k = 1 THEN 1
    ELSE 1 + FrameIndex(Tail(s), IF Head(s).text THEN k ELSE k - 1)

\* the bytes of s occur in t, in order
RECURSIVE IsSubseq(_, _)
IsSubseq(s, t) ==
    IF s = <<>> THEN TRUE
    ELSE IF t = <<>> THEN FALSE
    ELSE IsSubseq(IF Head(s) = Head(t) THEN Tail(s) ELSE s, Tail(t))

\* the text of the segments before segment j
TextBefore(j) == ExpectedText(SubSeq(input, 1, j - 1))

\* segment j's body and everything after segment j
FromBody(j) == input[j].bytes \o Flatten(SubSeq(input, j + 1, Len(input)))

(* C21: when a Read call invokes the handler, it is for the next frame of  *)
(* the stream; the text produced up to that moment (by earlier calls, and  *)
(* stored in the destination of this call) holds every text byte before    *)
(* the frame, and is exactly that text when no earlier invocation failed;  *)
(* the Reader has then consumed the source up to the end of the frame's    *)
(* header and no further, so that no byte after the frame has been taken   *)
(* as text.                                                                *)
C21_TextBeforeBlob ==
    [][\A i \in (Len(handled) + 1)..Len(handled') :
          /\ i <= Len(ExpectedFrames(input))
          /\ LET j == FrameIndex(input, i)
                 produced == Take(out', Len(out) + handled'[i].n)
             IN /\ handled'[i].rest = FromBody(j)
                /\ IsSubseq(TextBefore(j), produced)
                /\ (\A m \in 1..(i - 1) : handled'[m].ret = "nil")
                      => produced = TextBefore(j)]_vars

C21_Witness ==
    /\ ~herr /\ lastErr = "nil" /\ lastN = 3
    /\ Len(input) = 3 /\ input[1].text /\ ~input[2].text /\ input[3].text
    /\ input[2].bytes # <<>>
    /\ Len(handled) = 1
    /\ handled[1].n = Len(input[1].bytes) /\ handled[1].n > 0
    /\ handled[1].rest = input[2].bytes \o input[3].bytes
    /\ out = input[1].bytes \o Take(input[3].bytes, 2)

\* the buffer sizes of the Read calls of the model
BufSizes == (1..MaxBuf) \cup {CopyBufSize}

\* res, the outcome of a Read call with a non-empty destination, holds a
\* byte or an error
Progresses(res) == Len(res.p) > 0 \/ res.err # "nil"

\* res, the outcome of a Read call, changes what the caller can observe or
\* the Reader's state
Advances(res) ==
    \/ res.p # <<>> \/ res.hd # <<>> \/ res.b # b
    \/ res.err # lastErr \/ Len(res.p) # lastN

\* whatever call comes next returns a byte or an error, and changes the
\* state unless the Reader has stopped
EveryReadProgresses ==
    \A lenp \in BufSizes :
        /\ Progresses(ReaderRead(handler, b, lenp))
        /\ ~Stopped => Advances(ReaderRead(handler, b, lenp))

\* end-of-stream has been returned, the source is consumed, the handler has
\* been invoked once per frame and the text has been produced: exactly the
\* text when no invocation failed
ReadToEnd ==
    /\ ReaderAtEOF
    /\ Unconsumed = <<>>
    /\ Len(handled) = Len(ExpectedFrames(input))
    /\ IsSubseq(ExpectedText(input), out)
    /\ ~herr => out = ExpectedText(input)

(* C22: on a well-formed stream, whatever the handler reads and returns,   *)
(* every Read call with a non-empty destination returns at least one byte  *)
(* or an error, never (0, nil); and a caller that keeps reading gets       *)
(* end-of-stream after finitely many calls, and from then on for ever,     *)
(* with the source consumed, every frame handled and all text produced.    *)
C22_ReaderProgress == []EveryReadProgresses /\ <>[]ReadToEnd

C22_Witness ==
    /\ Stopped /\ ~herr
    /\ handler.kind = "reads" /\ handler.k = 0
    /\ Len(input) = 3 /\ ~input[1].text /\ input[2].text /\ ~input[3].text
    /\ input[1].bytes # <<>>
    /\ b.chunk = 1
    /\ Len(handled) = 2
    /\ out = input[2].bytes

====
